---- MODULE Spec2Model ----
(***************************************************************************)
(* The efuse "polyfuse" circuit breaker.                                   *)
(*                                                                         *)
(* Two versions of the breaker live in the sources:                        *)
(*   "func"  : src/polyfuse.go        (store and policy are func fields)   *)
(*   "store" : src/unnamed/part_001   (PolifuseStore + sigmoid ramp)       *)
(* The variable `variant` says which of the two a behaviour is about.      *)
(*                                                                         *)
(* Numbers.  float64 counters are held in fixed point: a count x is the    *)
(* integer x * One, where One is the Timeframe the breaker was built with, *)
(* so that MaxRequest / Timeframe (a rate per second) is exact.  The clock *)
(* is read at whole seconds.  Rates in errorShift are held per 10000.      *)
(***************************************************************************)
EXTENDS Integers, FiniteSets, Sequences, TLC

VARIABLES
    variant,    \* which source file the breaker is built from
    arg,        \* the PolyfuseSettings value passed to NewPolyfuse
    f,          \* the Polyfuse object: reqPerSec, errPerSec, data, setting
    now,        \* the wall clock, in seconds since construction
    pc,         \* per caller: "idle", or the call it is in, after its fetch
    loc,        \* per caller: the local variables of the call it is in
    last,       \* the call that completed last, with what it returned
    hist,       \* how many outcomes were reported with PushState so far, and
                \* whether the last call repeated a GetState at the same instant
    app         \* the last direct application of a package-level function

vars == <<variant, arg, f, now, pc, loc, last, hist, app>>

----------------------------------------------------------------------------
(* Bounds of the model *)

MaxTime == 2
MaxPush == 2
MaxCount == 4

Callers == {"c1", "c2"}

Variants == {"func", "store"}

TimeframeValues == {1, 2}
MaxRequestValues == {-1, 0, 1, 2}
MaxErrorValues == {0, 1}
ErrorRateValues == {-1, 5000, 10001}
RampframeValues == {0, 2}
FuncValues == {"nil", "user", "failing"}

----------------------------------------------------------------------------
(* Types of the two source files *)

\* PolyfuseSettings; the func fields hold "nil", "default" (a closure made by
\* one of the defaultPolyfuse... constructors), "user" (a caller's function)
\* or, for the two store functions, "failing" (a caller's function whose store
\* is unavailable).  A field a variant does not declare keeps its zero value.
SettingsOf(v) ==
    {[ID |-> "fuse",
      Rampframe |-> ramp,
      Timeframe |-> tf,
      MaxRequest |-> mr,
      MaxError |-> me,
      ErrorRate |-> er,
      MultiLock |-> FALSE,
      FetchDataFunc |-> IF v = "func" THEN fn ELSE "nil",
      PushDataFunc |-> IF v = "func" THEN fn ELSE "nil",
      GetStateFunc |-> IF v = "func" /\ fn # "nil" THEN "user" ELSE "nil",
      UpdateDataFunc |-> IF fn # "nil" THEN "user" ELSE "nil"] :
        ramp \in (IF v = "store" THEN RampframeValues ELSE {0}),
        tf \in TimeframeValues, mr \in MaxRequestValues, me \in MaxErrorValues,
        er \in ErrorRateValues, fn \in FuncValues}

\* The zero value of PolyfuseSettings (what `var f Polyfuse` holds in f.setting).
ZeroSettings ==
    [ID |-> "", Rampframe |-> 0, Timeframe |-> 0, MaxRequest |-> 0,
     MaxError |-> 0, ErrorRate |-> 0, MultiLock |-> FALSE,
     FetchDataFunc |-> "nil", PushDataFunc |-> "nil",
     GetStateFunc |-> "nil", UpdateDataFunc |-> "nil"]

PolyfuseData(r, e, t) == [Request |-> r, Error |-> e, Timestamp |-> t]

----------------------------------------------------------------------------
(* Fixed point *)

\* 1.0 in the fixed-point representation of the counters.
One == arg.Timeframe

\* int(x) of a non-negative float64 counter: truncation.
ToInt(x) == x \div One

Max(a, b) == IF a >= b THEN a ELSE b

----------------------------------------------------------------------------
(* Construction *)

\* The constructor's parameter `setting` after the clamps and defaults of
\* NewPolyfuse.  It is a local copy: the constructor writes to it and then
\* drops it.
LocalSetting(v, s) ==
    LET rate == IF s.ErrorRate < 0 THEN 0
                ELSE IF s.ErrorRate > 10000 THEN 10000 ELSE s.ErrorRate
        ramp == IF v = "store" /\ s.Rampframe < 1 THEN 1 ELSE s.Rampframe
        store == v = "func" /\ (s.FetchDataFunc = "nil" \/ s.PushDataFunc = "nil")
    IN  [s EXCEPT !.ErrorRate = rate,
                  !.Rampframe = ramp,
                  !.FetchDataFunc = IF store THEN "default" ELSE @,
                  !.PushDataFunc = IF store THEN "default" ELSE @,
                  !.GetStateFunc = IF v = "func" /\ @ = "nil" THEN "default" ELSE @,
                  !.UpdateDataFunc = IF @ = "nil" THEN "default" ELSE @]

\* f.setting as NewPolyfuse leaves it.  The constructor declares `var f Polyfuse`
\* and assigns f.data / f.store, f.reqPerSec and f.errPerSec; no statement
\* assigns f.setting, so the object keeps the zero PolyfuseSettings.
StoredSetting(v, s) == ZeroSettings

\* The snapshot the constructor seeds: Request 0 in polyfuse.go, Request 1 in
\* the store version; counters in fixed point (1.0 = s.Timeframe).
SeedData(v, s, t) ==
    PolyfuseData(IF v = "store" THEN 1 * s.Timeframe ELSE 0, 0, t)

\* NewPolyfuse(setting) called at time t.
NewPolyfuse(v, s, t) ==
    [data |-> SeedData(v, s, t),
     reqPerSec |-> (s.MaxRequest * s.Timeframe) \div s.Timeframe,
     errPerSec |-> (s.MaxError * s.Timeframe) \div s.Timeframe,
     setting |-> StoredSetting(v, s)]

\* GetID
GetID == f.setting.ID

----------------------------------------------------------------------------
(* The decay and the decisions *)

\* newReq / newErr of both GetState and UpdateData: the counter less the decay
\* over `distance` seconds, not below `floor`.
Decay(count, distance, perSec, floor) == Max(count - distance * perSec, floor)

\* 1 / (1 + e^x) per 10000, x an integer (float64 rounds 1 + e^x to 1 below
\* about -37 and the quotient to 0 far above; per 10000 the tails are flat).
Sigmoid(x) ==
    CASE x <= -10 -> 10000
      [] x = -9 -> 9999 [] x = -8 -> 9997 [] x = -7 -> 9991 [] x = -6 -> 9975
      [] x = -5 -> 9933 [] x = -4 -> 9820 [] x = -3 -> 9526 [] x = -2 -> 8808
      [] x = -1 -> 7311 [] x = 0 -> 5000 [] x = 1 -> 2689 [] x = 2 -> 1192
      [] x = 3 -> 474 [] x = 4 -> 180 [] x = 5 -> 67 [] x = 6 -> 25
      [] x = 7 -> 9 [] x = 8 -> 3 [] x = 9 -> 1
      [] x >= 10 -> 0

\* errorShift(err, req, errRate, span, ramp): errRate per 10000, span in
\* seconds.  ramp = 0 divides by zero in float64: 0*12/0 is NaN and every
\* comparison with NaN is false; span*12/0 is +Inf for span > 0, e^+Inf is
\* +Inf and the sigmoid is 0.
errorShift(err, req, errRate, span, ramp) ==
    IF ramp = 0 /\ span = 0 THEN FALSE
    ELSE LET sigmoidRate == IF ramp = 0 THEN 0
                            ELSE Sigmoid(((span * 12) \div ramp) - 6)
             \* normaliseRate per 10000 * 10000
             normaliseRate == sigmoidRate * (10000 - errRate) + errRate * 10000
         IN  \* currentRate > normaliseRate, with currentRate = err / req
             err * 10000 * 10000 > req * normaliseRate

\* What a decision hands back: the boolean, whether it goes on to push, and
\* the snapshot it pushes.
Deny(data) == [allowed |-> FALSE, push |-> FALSE, data |-> data]
Allow(data) == [allowed |-> TRUE, push |-> TRUE, data |-> data]

\* The closure defaultPolyfuseGetState(&f), applied to `data` at time t
\* (polyfuse.go), up to its call of f.setting.PushDataFunc.
defaultPolyfuseGetState(fv, data, t) ==
    LET distance == t - data.Timestamp
        newReq == Decay(data.Request, distance, fv.reqPerSec, 1 * One)
        newErr == Decay(data.Error, distance, fv.errPerSec, 0)
    IN  IF fv.setting.MaxRequest > 0 /\ fv.setting.MaxRequest <= ToInt(newReq)
        THEN Deny(data)
        ELSE IF fv.setting.MaxError > 0 /\ fv.setting.MaxError <= ToInt(newErr)
        THEN Deny(data)
        ELSE IF fv.setting.ErrorRate > 0
                /\ fv.setting.ErrorRate <= (newErr * 10000) \div newReq
        THEN Deny(data)
        ELSE Allow(PolyfuseData(newReq, newErr, t))

\* Mutant of StoreGetState: on allowing it persists the decayed counters, and
\* forgets their floors.
StoreGetStateUnfloored(fv, data, t) ==
    LET distance == t - data.Timestamp
        newReq == data.Request - distance * fv.reqPerSec
        newErr == data.Error - distance * fv.errPerSec
    IN  IF fv.setting.MaxRequest > 0 /\ fv.setting.MaxRequest <= ToInt(newReq)
        THEN Deny(data)
        ELSE IF fv.setting.MaxError > 0 /\ fv.setting.MaxError <= ToInt(newErr)
        THEN Deny(data)
        ELSE Allow(PolyfuseData(newReq, newErr, t))

\* Mutant of StoreGetState: an allowing GetState counts itself as a request.
StoreGetStateCounting(fv, data, t) ==
    LET distance == t - data.Timestamp
        newReq == Decay(data.Request, distance, fv.reqPerSec, 1 * One)
        newErr == Decay(data.Error, distance, fv.errPerSec, 0)
    IN  IF fv.setting.MaxRequest > 0 /\ fv.setting.MaxRequest <= ToInt(newReq)
        THEN Deny(data)
        ELSE IF fv.setting.MaxError > 0 /\ fv.setting.MaxError <= ToInt(newErr)
        THEN Deny(data)
        ELSE Allow([data EXCEPT !.Request = @ + 1 * One])

\* The body of Polyfuse.GetState of the store version after its fetch, up to
\* its call of f.store.PushData: newReq and newErr are locals, and what is
\* pushed is *data, the fetched snapshot itself.
StoreGetState(fv, data, t) ==
    LET distance == t - data.Timestamp
        newReq == Decay(data.Request, distance, fv.reqPerSec, 1 * One)
        newErr == Decay(data.Error, distance, fv.errPerSec, 0)
    IN  IF fv.setting.MaxRequest > 0 /\ fv.setting.MaxRequest <= ToInt(newReq)
        THEN Deny(data)
        ELSE IF fv.setting.MaxError > 0 /\ fv.setting.MaxError <= ToInt(newErr)
        THEN Deny(data)
        ELSE IF fv.setting.ErrorRate > 0
                /\ errorShift(newErr, newReq, fv.setting.ErrorRate, distance,
                              fv.setting.Rampframe)
        THEN Deny(data)
        ELSE Allow(data)

\* The closure defaultPolyfuseUpdateData(&f), applied to (state, data) at
\* time t: the same in both files.
defaultPolyfuseUpdateData(fv, state, data, t) ==
    LET distance == t - data.Timestamp
        newReq == Decay(data.Request, distance, fv.reqPerSec, 0) + 1 * One
        newErr == Decay(data.Error, distance, fv.errPerSec, 0)
                  + (IF ~state THEN 1 * One ELSE 0)
    IN  PolyfuseData(newReq, newErr, t)

----------------------------------------------------------------------------
(* The store and the calls *)

\* f.setting.FetchDataFunc() (polyfuse.go) or f.store.FetchData() (store
\* version): the possible results.  Calling a nil func value panics.  A
\* caller's own store may fail.
FetchOutcomes ==
    IF variant = "store" THEN {[err |-> "nil", data |-> f.data]}
    ELSE CASE f.setting.FetchDataFunc = "nil" ->
                {[err |-> "panic", data |-> f.data]}
           [] f.setting.FetchDataFunc = "default" ->
                {[err |-> "nil", data |-> f.data]}
           [] f.setting.FetchDataFunc = "failing" ->
                {[err |-> "StoreUnavailable", data |-> f.data]}
           [] OTHER ->
                {[err |-> "nil", data |-> f.data],
                 [err |-> "StoreUnavailable", data |-> f.data]}

\* f.setting.PushDataFunc(d) or f.store.PushData(d): the possible results,
\* each with the snapshot the store holds afterwards.
PushOutcomes(d) ==
    IF variant = "store" THEN {[err |-> "nil", stored |-> d]}
    ELSE CASE f.setting.PushDataFunc = "nil" ->
                {[err |-> "panic", stored |-> f.data]}
           [] f.setting.PushDataFunc = "default" ->
                {[err |-> "nil", stored |-> d]}
           [] f.setting.PushDataFunc = "failing" ->
                {[err |-> "StoreUnavailable", stored |-> f.data]}
           [] OTHER ->
                {[err |-> "nil", stored |-> d],
                 [err |-> "StoreUnavailable", stored |-> f.data]}

\* The decision of GetState on the fetched `data` at time t: the store
\* version decides in the method, polyfuse.go calls f.setting.GetStateFunc.
Decisions(data, t) ==
    IF variant = "store" THEN {StoreGetState(f, data, t)}
    ELSE CASE f.setting.GetStateFunc = "nil" -> {}
           [] f.setting.GetStateFunc = "default" ->
                {defaultPolyfuseGetState(f, data, t)}
           [] OTHER ->
                {Deny(data), [allowed |-> TRUE, push |-> FALSE, data |-> data]}

\* GetState after its fetch: what it returns and what the store then holds.
\* `return true, push(data)` evaluates the push before it returns.
GetStateOutcomes(data, t) ==
    IF Decisions(data, t) = {}
    THEN {[allowed |-> FALSE, err |-> "panic", stored |-> f.data]}
    ELSE UNION {IF d.push
                THEN {[allowed |-> p.err # "panic", err |-> p.err,
                       stored |-> p.stored] : p \in PushOutcomes(d.data)}
                ELSE {[allowed |-> d.allowed, err |-> "nil", stored |-> f.data]} :
                d \in Decisions(data, t)}

\* f.setting.UpdateDataFunc(state, data) at time t: the possible results.
UpdateOutcomes(state, data, t) ==
    CASE f.setting.UpdateDataFunc = "nil" ->
            {[err |-> "panic", data |-> data]}
      [] f.setting.UpdateDataFunc = "default" ->
            {[err |-> "nil", data |-> defaultPolyfuseUpdateData(f, state, data, t)]}
      [] OTHER ->
            {[err |-> "nil", data |-> data], [err |-> "UpdateFailed", data |-> data]}

\* PushState after its fetch: what it returns and what the store then holds.
PushStateOutcomes(state, data, t) ==
    UNION {IF u.err # "nil"
           THEN {[err |-> u.err, stored |-> f.data]}
           ELSE {[err |-> p.err, stored |-> p.stored] : p \in PushOutcomes(u.data)} :
           u \in UpdateOutcomes(state, data, t)}

\* The record of a completed call.
Done(op, c, state, allowed, err, fetched, after) ==
    [op |-> op, caller |-> c, state |-> state, allowed |-> allowed, err |-> err,
     at |-> now, fetched |-> fetched, before |-> f.data, after |-> after]

NoLocals == [data |-> PolyfuseData(0, 0, 0), state |-> TRUE]

NoCall ==
    [op |-> "none", caller |-> "c1", state |-> TRUE, allowed |-> FALSE,
     err |-> "nil", at |-> 0, fetched |-> PolyfuseData(0, 0, 0),
     before |-> PolyfuseData(0, 0, 0), after |-> PolyfuseData(0, 0, 0)]

NoApp == [fn |-> "none"]

\* A GetState completing now repeats one: the call completed before it was a
\* GetState at this same instant, with no PushState completed in between.
Repeats == last.op = "GetState" /\ last.at = now

\* The snapshot a call works on after its fetch: polyfuse.go fetches a copy,
\* the store version a pointer to the store's own snapshot.
Fetched(c) == IF variant = "store" THEN f.data ELSE loc[c].data

----------------------------------------------------------------------------
(* The state machine *)

Init ==
    /\ variant \in Variants
    /\ arg \in SettingsOf(variant)
    /\ f = NewPolyfuse(variant, arg, 0)
    /\ now = 0
    /\ pc = [c \in Callers |-> "idle"]
    /\ loc = [c \in Callers |-> NoLocals]
    /\ last = NoCall
    /\ hist = [pushes |-> 0, failures |-> 0, repeat |-> FALSE]
    /\ app = NoApp

\* time.Now() moves on.
Tick ==
    /\ now < MaxTime
    /\ app = NoApp
    /\ now' = now + 1
    /\ UNCHANGED <<variant, arg, f, pc, loc, last, hist, app>>

\* GetState, up to and with its fetch.  No lock is taken.
GetStateCall(c) ==
    /\ pc[c] = "idle"
    /\ \E r \in FetchOutcomes :
          IF r.err = "nil"
          THEN /\ pc' = [pc EXCEPT ![c] = "GetState"]
               /\ loc' = [loc EXCEPT ![c] = [data |-> r.data, state |-> TRUE]]
               /\ UNCHANGED <<last, hist>>
          ELSE /\ last' = Done("GetState", c, TRUE, FALSE, r.err, f.data, f.data)
               /\ hist' = [hist EXCEPT !.repeat = Repeats]
               /\ UNCHANGED <<pc, loc>>
    /\ UNCHANGED <<variant, arg, f, now, app>>

\* GetState, from the fetch to its return.
GetStateReturn(c) ==
    /\ pc[c] = "GetState"
    /\ \E o \in GetStateOutcomes(Fetched(c), now) :
          /\ f' = [f EXCEPT !.data = o.stored]
          /\ last' = Done("GetState", c, TRUE, o.allowed, o.err, Fetched(c), o.stored)
    /\ hist' = [hist EXCEPT !.repeat = Repeats]
    /\ pc' = [pc EXCEPT ![c] = "idle"]
    /\ loc' = [loc EXCEPT ![c] = NoLocals]
    /\ UNCHANGED <<variant, arg, now, app>>

\* PushState(state), up to and with its fetch.  No lock is taken.
PushStateCall(c, state) ==
    /\ pc[c] = "idle"
    /\ hist.pushes + Cardinality({d \in Callers : pc[d] = "PushState"}) < MaxPush
    /\ \E r \in FetchOutcomes :
          IF r.err = "nil"
          THEN /\ pc' = [pc EXCEPT ![c] = "PushState"]
               /\ loc' = [loc EXCEPT ![c] = [data |-> r.data, state |-> state]]
               /\ UNCHANGED <<last, hist>>
          ELSE /\ last' = Done("PushState", c, state, FALSE, r.err, f.data, f.data)
               /\ hist' = [pushes |-> hist.pushes + 1,
                           failures |-> hist.failures + (IF state THEN 0 ELSE 1),
                           repeat |-> FALSE]
               /\ UNCHANGED <<pc, loc>>
    /\ UNCHANGED <<variant, arg, f, now, app>>

\* PushState, from the fetch to its return.
PushStateReturn(c) ==
    /\ pc[c] = "PushState"
    /\ \E o \in PushStateOutcomes(loc[c].state, Fetched(c), now) :
          /\ f' = [f EXCEPT !.data = o.stored]
          /\ last' = Done("PushState", c, loc[c].state, FALSE, o.err, Fetched(c),
                          o.stored)
    /\ hist' = [pushes |-> hist.pushes + 1,
                failures |-> hist.failures + (IF loc[c].state THEN 0 ELSE 1),
                repeat |-> FALSE]
    /\ pc' = [pc EXCEPT ![c] = "idle"]
    /\ loc' = [loc EXCEPT ![c] = NoLocals]
    /\ UNCHANGED <<variant, arg, now, app>>

Next ==
    \/ Tick
    \/ \E c \in Callers : GetStateCall(c)
    \/ \E c \in Callers : GetStateReturn(c)
    \/ \E c \in Callers, state \in BOOLEAN : PushStateCall(c, state)
    \/ \E c \in Callers : PushStateReturn(c)

Spec == Init /\ [][Next]_vars

----------------------------------------------------------------------------
(* The package-level functions applied on their own *)

\* Snapshots handed to the closures: any counters up to MaxCount, stamped at
\* the time of construction, so that the time elapsed is `now`.
DataValues ==
    {PolyfuseData(r, e, 0) : r \in 0..(MaxCount * One), e \in 0..(MaxCount * One)}

ShiftRateValues == {100, 5000, 10000}
ShiftRampValues == {0, 1, 2, 3, 4}

\* defaultPolyfuseGetState(&f)(data): the closure of polyfuse.go on a given
\* snapshot, its push included.
ApplyGetStateFunc ==
    /\ app = NoApp
    /\ variant = "func"
    /\ \E data \in DataValues :
          LET d == defaultPolyfuseGetState(f, data, now)
              outs == IF d.push
                      THEN {[allowed |-> p.err # "panic", err |-> p.err,
                             stored |-> p.stored] : p \in PushOutcomes(d.data)}
                      ELSE {[allowed |-> d.allowed, err |-> "nil", stored |-> f.data]}
          IN  \E o \in outs :
                 /\ f' = [f EXCEPT !.data = o.stored]
                 /\ app' = [fn |-> "defaultPolyfuseGetState", data |-> data,
                            t |-> now, allowed |-> o.allowed, err |-> o.err]
    /\ UNCHANGED <<variant, arg, now, pc, loc, last, hist>>

\* defaultPolyfuseUpdateData(&f)(state, data): the closure of either file on
\* a given snapshot.
ApplyUpdateDataFunc ==
    /\ app = NoApp
    /\ \E state \in BOOLEAN, data \in DataValues :
          app' = [fn |-> "defaultPolyfuseUpdateData", state |-> state,
                  data |-> data, t |-> now,
                  out |-> defaultPolyfuseUpdateData(f, state, data, now)]
    /\ UNCHANGED <<variant, arg, f, now, pc, loc, last, hist>>

\* errorShift(err, req, errRate, span, ramp) of the store version.
ApplyErrorShift ==
    /\ app = NoApp
    /\ variant = "store"
    /\ \E err \in 0..MaxCount, req \in 1..MaxCount, errRate \in ShiftRateValues,
          ramp \in ShiftRampValues :
          app' = [fn |-> "errorShift", err |-> err, req |-> req,
                  errRate |-> errRate, span |-> now, ramp |-> ramp,
                  out |-> errorShift(err, req, errRate, now, ramp)]
    /\ UNCHANGED <<variant, arg, f, now, pc, loc, last, hist>>

NextFn ==
    \/ Tick
    \/ ApplyGetStateFunc
    \/ ApplyUpdateDataFunc
    \/ ApplyErrorShift

SpecFn == Init /\ [][NextFn]_vars

----------------------------------------------------------------------------
(* The claims *)

\* The request and error counts of `data` decayed to time t with the rates of
\* the settings the breaker was built with (max / timeframe per second, which
\* is max per second in fixed point), as the specification states the decay.
DecayedRequest(data, t, floor) ==
    Decay(data.Request, t - data.Timestamp, arg.MaxRequest, floor)
DecayedError(data, t) ==
    Decay(data.Error, t - data.Timestamp, arg.MaxError, 0)

\* The breaker was built with no store and no policy of the caller's, so the
\* constructor's defaults are the ones meant to run.
BuiltWithDefaults == arg.UpdateDataFunc = "nil"

\* C1: for a breaker built with max_request > 0, a GetState that returns,
\* and whose fetched request count, decayed to the call time and floored at
\* 1, is at least max_request, returns false with no error.
C1_RequestCeilingDenies ==
    (/\ last.op = "GetState"
     /\ last.err # "panic"
     /\ BuiltWithDefaults
     /\ arg.MaxRequest > 0
     /\ DecayedRequest(last.fetched, last.at, 1 * One) >= arg.MaxRequest * One)
    => (~last.allowed /\ last.err = "nil")

\* C2: for a breaker built with max_error > 0, the decision on a snapshot
\* whose error count, decayed to the call time and floored at 0, is at least
\* max_error is false with no error, whatever the request count is.
C2_ErrorCeilingDenies ==
    (/\ app.fn = "defaultPolyfuseGetState"
     /\ BuiltWithDefaults
     /\ arg.MaxError > 0
     /\ DecayedError(app.data, app.t) >= arg.MaxError * One)
    => (~app.allowed /\ app.err = "nil")

\* C3: a breaker built with max_request <= 0, max_error <= 0 and
\* error_rate <= 0 on the default store answers every GetState with true and
\* no error.
C3_DisabledChecksAllow ==
    (/\ last.op = "GetState"
     /\ BuiltWithDefaults
     /\ arg.MaxRequest <= 0 /\ arg.MaxError <= 0 /\ arg.ErrorRate <= 0)
    => (last.allowed /\ last.err = "nil")

\* No GetState of a built breaker ever denies: it allows or it panics.  (This
\* is why the self-healing of C4, which starts from a denial, has no case to
\* be checked on.)
GetStateNeverDenies ==
    last.op = "GetState" => (last.allowed \/ last.err = "panic")

\* C5: a call's fetch-to-push sequence is a critical section (no two callers
\* are inside one at once), and no reported outcome is lost: with all calls
\* returned and no time elapsed, the stored request count is the seed plus
\* the number of PushState calls and the error count the number of failures
\* reported.
C5_CriticalSectionNoLostOutcome ==
    /\ Cardinality({c \in Callers : pc[c] # "idle"}) <= 1
    /\ (BuiltWithDefaults /\ now = 0 /\ \A c \in Callers : pc[c] = "idle")
       => /\ f.data.Request = SeedData(variant, arg, 0).Request + hist.pushes * One
          /\ f.data.Error = hist.failures * One

\* C6: at span 0 errorShift never reports a trip, however large err / req is
\* (the dampened threshold at span 0 being the full 100%).
C6_ZeroSpanNeverTrips ==
    (app.fn = "errorShift" /\ app.span = 0 /\ app.errRate > 0) => ~app.out

\* C7: after PushState(true) the stored snapshot has the request count decayed
\* (floor 0) plus 1, the error count decayed (floor 0) with no increment, and
\* the call time as its timestamp.
C7_PushTrueRoundTrip ==
    (last.op = "PushState" /\ BuiltWithDefaults /\ last.state)
    => /\ last.after.Request = DecayedRequest(last.before, last.at, 0) + 1 * One
       /\ last.after.Error = DecayedError(last.before, last.at)
       /\ last.after.Timestamp = last.at

\* C8: PushState on a breaker built with the default update function returns
\* no error whatever the counts and thresholds are, and a PushState(false)
\* with no time elapsed raises the stored error count and the stored request
\* count by exactly 1 each.
C8_PushStateAlwaysRecords ==
    (last.op = "PushState" /\ BuiltWithDefaults)
    => /\ last.err = "nil"
       /\ (~last.state /\ last.at = last.before.Timestamp)
          => /\ last.after.Error = last.before.Error + 1 * One
             /\ last.after.Request = last.before.Request + 1 * One

\* C9: in every reachable state the stored request count and the stored error
\* count are both >= 0.
C9_CountsNonNegative == f.data.Request >= 0 /\ f.data.Error >= 0

\* C9 witness: a state after reported outcomes, an allowing GetState and the
\* passage of time, on a breaker whose request count decays.
C9_Witness ==
    /\ last.op = "GetState" /\ last.allowed
    /\ last.at > 0 /\ hist.pushes > 0
    /\ arg.MaxRequest > 0
    /\ C9_CountsNonNegative

\* C10: a GetState that allows leaves in the store the fetched snapshot
\* decayed to the call time: timestamp = call time, error count = decayed
\* error, request count = decayed request (floor 1), not above the request
\* count stored before the call.
C10_AllowPersistsDecayed ==
    (last.op = "GetState" /\ last.allowed /\ last.err = "nil")
    => /\ last.after.Timestamp = last.at
       /\ last.after.Error = DecayedError(last.fetched, last.at)
       /\ last.after.Request = DecayedRequest(last.fetched, last.at, 1 * One)
       /\ last.after.Request <= last.before.Request

\* The decayed counts a GetState made now would compute from the stored
\* snapshot (newReq and newErr of GetState, with the rates the constructor
\* cached in f.reqPerSec and f.errPerSec).
IdleRequest == Decay(f.data.Request, now - f.data.Timestamp, f.reqPerSec, 1 * One)
IdleError == Decay(f.data.Error, now - f.data.Timestamp, f.errPerSec, 0)

\* C11: while time advances and the stored snapshot stays as it is (nothing is
\* reported), the decayed request and error counts GetState uses never
\* increase, and they stay at or above their floors 1 and 0; this for every
\* setting, ceilings <= 0 included.
C11_IdleDecayMonotone ==
    [][(now' > now /\ f' = f)
       => /\ IdleRequest' <= IdleRequest
          /\ IdleError' <= IdleError
          /\ IdleRequest' >= 1 * One
          /\ IdleError' >= 0]_vars

\* C12: on a breaker built with a store whose fetch fails, GetState returns
\* (false, that error) and PushState returns that error, and neither pushes:
\* the stored snapshot is as it was.
C12_FetchFailurePropagates ==
    (last.op \in {"GetState", "PushState"} /\ arg.FetchDataFunc = "failing")
    => /\ last.err = "StoreUnavailable"
       /\ ~last.allowed
       /\ last.after = last.before

\* C13: the breaker NewPolyfuse returns carries the settings it was built
\* with: GetID is the id passed in, and the thresholds and the store, decision
\* and update functions it uses are those passed in, with the constructor's
\* clamps and defaults.
C13_CarriesSettings ==
    /\ GetID = arg.ID
    /\ f.setting = LocalSetting(variant, arg)

\* C14: the settings the breaker uses have 0 <= ErrorRate <= 10000 and, in
\* the store version, Rampframe >= 1.
C14_SettingsClamped ==
    /\ f.setting.ErrorRate >= 0
    /\ f.setting.ErrorRate <= 10000
    /\ variant = "store" => f.setting.Rampframe >= 1

\* C17: a GetState that completes right after another GetState, at the same
\* instant and with no PushState completed in between, gives the same result
\* and leaves the stored snapshot as the first one left it.
C17_GetStateIdempotent ==
    [][(last.op = "GetState" /\ last'.op = "GetState" /\ last'.at = last.at)
       => /\ last'.allowed = last.allowed
          /\ last'.err = last.err
          /\ last'.after = last.after]_vars

\* C17 witness: a second allowing GetState at one instant, some time after
\* the snapshot was stamped, on a breaker whose request count decays.
C17_Witness ==
    /\ hist.repeat
    /\ last.op = "GetState" /\ last.allowed /\ last.err = "nil"
    /\ last.at > last.after.Timestamp
    /\ arg.MaxRequest > 0

\* No GetState of a built breaker ever meets a store error: it returns with
\* no error or it panics.  (The cases of C15, a denial, and of C16, a store
\* failure during a decision, do not occur; see GetStateNeverDenies.)
GetStateNeverSeesStoreError ==
    last.op = "GetState" => last.err \in {"nil", "panic"}

\* C18: on a breaker built with the defaults and max_request >= 1 or disabled,
\* a GetState made while no outcome has been reported returns true with no
\* error.
C18_FreshBreakerAllows ==
    (/\ last.op = "GetState"
     /\ BuiltWithDefaults
     /\ hist.pushes = 0
     /\ \A c \in Callers : pc[c] # "PushState")
    => (last.allowed /\ last.err = "nil")

====
